---- MODULE Spec2Model ----
(***************************************************************************)
(* Wall Chess (src/lol.py): a two-sided grid race with blocking walls.     *)
(* The model covers the A* search (a_star, with the binary heap of heapq   *)
(* that orders its open set), the agent turn (handle_ai_turn), the human   *)
(* move and wall handlers of the main loop, the win bookkeeping and the    *)
(* game-over screen's resets.  Rendering is left out.                      *)
(***************************************************************************)
EXTENDS Integers, Sequences, FiniteSets, TLC

\* Board geometry and wall budget (lol.py:8-15), scaled down for checking.
BOARD_COLS == 4
BOARD_ROWS == 3
GOAL_ROWS == 2
MAX_WALLS_PER_PLAYER == 3
TOTAL_ROWS == BOARD_ROWS + GOAL_ROWS

\* At most MaxGames games are scored before the score board is cleared
\* by a return to the start screen.
MaxGames == 2

Abs(x) == IF x < 0 THEN -x ELSE x

\* heuristic(node, goal_pos): Manhattan distance.
heuristic(pos, goal_pos) == Abs(pos[1] - goal_pos[1]) + Abs(pos[2] - goal_pos[2])

\* Node: position, g and the parent chain, kept as the cells from the
\* start (excluded) to the node (included); f = g + h is the heap key.
Node(pos, parentpath, goal_pos) ==
    LET p == Append(parentpath, pos)
    IN  [pos |-> pos, path |-> p, f |-> Len(p) + heuristic(pos, goal_pos)]

StartNode(pos) == [pos |-> pos, path |-> <<>>, f |-> 0]

\* Entries of the open set compare by f alone: a tuple (f, node) is less
\* than another iff its f is less (Node.__lt__ compares f as well).
EntryLess(a, b) == a.f < b.f

\* heapq._siftdown(heap, startpos, pos); positions are 0-based.
RECURSIVE SiftDownLoop(_, _, _, _)
SiftDownLoop(heap, startpos, pos, newitem) ==
    IF pos > startpos
    THEN LET parentpos == (pos - 1) \div 2
             parent == heap[parentpos + 1]
         IN  IF EntryLess(newitem, parent)
             THEN SiftDownLoop([heap EXCEPT ![pos + 1] = parent], startpos, parentpos, newitem)
             ELSE [heap EXCEPT ![pos + 1] = newitem]
    ELSE [heap EXCEPT ![pos + 1] = newitem]

SiftDown(heap, startpos, pos) == SiftDownLoop(heap, startpos, pos, heap[pos + 1])

\* heapq._siftup(heap, pos): bubble the smaller child up to a leaf, then
\* sift the displaced item down from there.
RECURSIVE SiftUpLoop(_, _, _, _)
SiftUpLoop(heap, startpos, pos, newitem) ==
    LET endpos == Len(heap)
        childpos == 2 * pos + 1
    IN  IF childpos < endpos
        THEN LET rightpos == childpos + 1
                 c == IF rightpos < endpos /\ ~EntryLess(heap[childpos + 1], heap[rightpos + 1])
                      THEN rightpos ELSE childpos
             IN  SiftUpLoop([heap EXCEPT ![pos + 1] = heap[c + 1]], startpos, c, newitem)
        ELSE SiftDown([heap EXCEPT ![pos + 1] = newitem], startpos, pos)

SiftUp(heap, pos) == SiftUpLoop(heap, pos, pos, heap[pos + 1])

\* heapq.heappush(heap, item)
heappush(heap, item) == SiftDown(Append(heap, item), 0, Len(heap))

\* Variant: the open set is popped from its end, as list.pop() would.
heappop_Last(heap) ==
    [item |-> heap[Len(heap)], heap |-> SubSeq(heap, 1, Len(heap) - 1)]

\* heapq.heappop(heap): the popped item and the heap left.
heappop(heap) ==
    LET lastelt == heap[Len(heap)]
        rest == SubSeq(heap, 1, Len(heap) - 1)
    IN  IF rest # <<>>
        THEN [item |-> heap[1], heap |-> SiftUp([rest EXCEPT ![1] = lastelt], 0)]
        ELSE [item |-> lastelt, heap |-> rest]

\* The four directions in the order a_star tries them.
Directions == << <<1, 0>>, <<-1, 0>>, <<0, 1>>, <<0, -1>> >>

\* A cell a path may pass through: an interior row and a column of the board.
Interior(pos) ==
    /\ 1 <= pos[1] /\ pos[1] < TOTAL_ROWS - 1
    /\ 0 <= pos[2] /\ pos[2] < BOARD_COLS

\* Variant: the neighbour test does not look at the walls.
Passable_IgnoresWalls(pos, goal_pos, walls) ==
    \/ pos = goal_pos
    \/ Interior(pos)

\* The neighbour test of a_star's inner loop: the goal is always taken,
\* any other cell must be interior and free of walls.
Passable(pos, goal_pos, walls) ==
    \/ pos = goal_pos
    \/ Interior(pos) /\ pos \notin walls

\* The inner for loop of a_star: push the passable, unvisited neighbours.
RECURSIVE Expand(_, _, _, _, _, _)
Expand(open, current, visited, goal_pos, walls, i) ==
    IF i > Len(Directions) THEN open
    ELSE LET n == <<current.pos[1] + Directions[i][1], current.pos[2] + Directions[i][2]>>
             next == IF Passable(n, goal_pos, walls) /\ n \notin visited
                     THEN heappush(open, Node(n, current.path, goal_pos))
                     ELSE open
         IN  Expand(next, current, visited, goal_pos, walls, i + 1)

\* The while loop of a_star.
RECURSIVE AStarLoop(_, _, _, _)
AStarLoop(open, visited, goal_pos, walls) ==
    IF open = <<>> THEN <<>>
    ELSE LET popped == heappop(open)
             current == popped.item
         IN  IF current.pos = goal_pos THEN current.path
             ELSE LET v == visited \cup {current.pos}
                  IN  AStarLoop(Expand(popped.heap, current, v, goal_pos, walls, 1),
                                v, goal_pos, walls)

a_star(start, goal_pos, walls) == AStarLoop(<<StartNode(start)>>, {}, goal_pos, walls)

\* ---------------------------------------------------------------- state
VARIABLES
    game_mode,          \* 0 = Player vs AI, 1 = AI vs AI
    player_pos, ai_pos, \* game_state['player_pos'], game_state['ai_pos']
    walls,              \* game_state['walls']
    player_walls_used, ai_walls_used,
    turn_counter,
    game_over,
    result_message,
    player_moved,
    scores,             \* player_wins, ai_wins, games_played
    search              \* one call of a_star: its arguments and its result

vars == <<game_mode, player_pos, ai_pos, walls, player_walls_used, ai_walls_used,
          turn_counter, game_over, result_message, player_moved, scores, search>>

\* The fields of game_state, without the mode and the score board.
game_state == <<player_pos, ai_pos, walls, player_walls_used, ai_walls_used,
                turn_counter, game_over, result_message, player_moved>>

player_goal == <<TOTAL_ROWS - 1, BOARD_COLS \div 2>>
ai_goal == <<0, BOARD_COLS \div 2>>

\* Every cell of the window.
Cells == (0 .. TOTAL_ROWS - 1) \X (0 .. BOARD_COLS - 1)

MsgNone == ""
MsgPlayerAI == "Player AI reached the goal! Player AI wins!"
MsgYou == "You reached the AI's goal! You win!"
MsgAI == "AI reached the goal! AI wins!"

NoScores == [player_wins |-> 0, ai_wins |-> 0, games_played |-> 0]

\* No a_star call is being followed: the game calls a_star inside its steps.
NoSearch == [start |-> <<0, 0>>, goal_pos |-> <<0, 0>>, walls |-> {},
             path |-> <<>>, done |-> FALSE]

\* reset_game(): the fresh game state.
reset_game ==
    [player_pos |-> <<1, BOARD_COLS \div 2>>,
     ai_pos |-> <<TOTAL_ROWS - 2, BOARD_COLS \div 2>>,
     walls |-> {},
     player_walls_used |-> 0,
     ai_walls_used |-> 0,
     turn_counter |-> 0,
     game_over |-> FALSE,
     result_message |-> MsgNone,
     player_moved |-> FALSE]

\* The game state becomes the record gs.
SetGameState(gs) ==
    /\ player_pos' = gs.player_pos
    /\ ai_pos' = gs.ai_pos
    /\ walls' = gs.walls
    /\ player_walls_used' = gs.player_walls_used
    /\ ai_walls_used' = gs.ai_walls_used
    /\ turn_counter' = gs.turn_counter
    /\ game_over' = gs.game_over
    /\ result_message' = gs.result_message
    /\ player_moved' = gs.player_moved

\* main(): the mode chosen on the start screen, a fresh game, no scores.
Init ==
    /\ game_mode \in {0, 1}
    /\ player_pos = reset_game.player_pos
    /\ ai_pos = reset_game.ai_pos
    /\ walls = reset_game.walls
    /\ player_walls_used = reset_game.player_walls_used
    /\ ai_walls_used = reset_game.ai_walls_used
    /\ turn_counter = reset_game.turn_counter
    /\ game_over = reset_game.game_over
    /\ result_message = reset_game.result_message
    /\ player_moved = reset_game.player_moved
    /\ scores = NoScores
    /\ search = NoSearch

\* ------------------------------------------------------- handle_ai_turn
\* The no-trap test shared by both wall paths: with the candidate walls
\* each side still has a non-empty path to its own goal.
\* Variant: only the Player's path is searched.
BothHavePath_PlayerOnly(p_pos, a_pos, walls_candidate) ==
    a_star(p_pos, player_goal, walls_candidate) # <<>>

BothHavePath(p_pos, a_pos, walls_candidate) ==
    /\ a_star(p_pos, player_goal, walls_candidate) # <<>>
    /\ a_star(a_pos, ai_goal, walls_candidate) # <<>>

\* The acting side's budget test of handle_ai_turn.
AIHasBudget(walls_used) == walls_used < MAX_WALLS_PER_PLAYER

\* The opponent's current path, whose first cell the agent tries to block.
OpponentPath(is_player_ai) ==
    IF is_player_ai THEN a_star(ai_pos, ai_goal, walls)
                    ELSE a_star(player_pos, player_goal, walls)

\* Variant: the agent blocks the last cell of the opponent's path.
BlockPos_LastStep(opponent_path) == opponent_path[Len(opponent_path)]

\* The cell the agent blocks: the first step of the opponent's path.
BlockPos(opponent_path) == opponent_path[1]

\* Does the wall step of handle_ai_turn commit its candidate?
AICommitsWall(is_player_ai) ==
    /\ AIHasBudget(IF is_player_ai THEN player_walls_used ELSE ai_walls_used)
    /\ OpponentPath(is_player_ai) # <<>>
    /\ BothHavePath(player_pos, ai_pos,
                    walls \cup {BlockPos(OpponentPath(is_player_ai))})

\* Variant: the commit keeps the candidate alone and drops the older walls.
AIWalls_OnlyCandidate(is_player_ai) ==
    IF AICommitsWall(is_player_ai)
    THEN {BlockPos(OpponentPath(is_player_ai))}
    ELSE walls

\* The wall set after the wall step.
AIWalls(is_player_ai) ==
    IF AICommitsWall(is_player_ai)
    THEN walls \cup {BlockPos(OpponentPath(is_player_ai))}
    ELSE walls

\* The acting side's cell after the movement step: the first cell of its
\* own path under the walls the wall step left, if there is a path.
AIMove(pos, goal_pos, new_walls) ==
    LET ai_path == a_star(pos, goal_pos, new_walls)
    IN  IF ai_path # <<>> THEN ai_path[1] ELSE pos

\* Variant: the win check tests the Opponent's goal first.
WinCheck_OpponentFirst(is_player_ai, p_pos, a_pos) ==
    IF a_pos = ai_goal
    THEN [game_over |-> TRUE, result_message |-> MsgAI]
    ELSE IF p_pos = player_goal
    THEN [game_over |-> TRUE,
          result_message |-> IF is_player_ai THEN MsgPlayerAI ELSE MsgYou]
    ELSE [game_over |-> game_over, result_message |-> result_message]

\* The win check that ends handle_ai_turn: the Player's goal is tested first.
WinCheck(is_player_ai, p_pos, a_pos) ==
    IF p_pos = player_goal
    THEN [game_over |-> TRUE,
          result_message |-> IF is_player_ai THEN MsgPlayerAI ELSE MsgYou]
    ELSE IF a_pos = ai_goal
    THEN [game_over |-> TRUE, result_message |-> MsgAI]
    ELSE [game_over |-> game_over, result_message |-> result_message]

\* handle_ai_turn(game_state, is_player_ai): the game state it returns.
handle_ai_turn(is_player_ai) ==
    LET commit == AICommitsWall(is_player_ai)
        new_walls == AIWalls(is_player_ai)
        p_pos == IF is_player_ai THEN AIMove(player_pos, player_goal, new_walls)
                                 ELSE player_pos
        a_pos == IF is_player_ai THEN ai_pos
                                 ELSE AIMove(ai_pos, ai_goal, new_walls)
        won == WinCheck(is_player_ai, p_pos, a_pos)
    IN  [player_pos |-> p_pos,
         ai_pos |-> a_pos,
         walls |-> new_walls,
         player_walls_used |-> IF commit /\ is_player_ai
                               THEN player_walls_used + 1 ELSE player_walls_used,
         ai_walls_used |-> IF commit /\ ~is_player_ai
                           THEN ai_walls_used + 1 ELSE ai_walls_used,
         turn_counter |-> turn_counter + 1,
         game_over |-> won.game_over,
         result_message |-> won.result_message,
         player_moved |-> player_moved]

\* The win counters of the main loop, updated in the frame that ends the
\* game: the Player's goal is tested first.
ScoreUpdate(gs) ==
    IF ~gs.game_over THEN scores
    ELSE IF gs.player_pos = player_goal
    THEN [scores EXCEPT !.player_wins = @ + 1, !.games_played = @ + 1]
    ELSE IF gs.ai_pos = ai_goal
    THEN [scores EXCEPT !.ai_wins = @ + 1, !.games_played = @ + 1]
    ELSE scores

\* Player vs AI: the agent turn that follows a successful human move, in
\* the same frame; player_moved is cleared after it.
AgentTurnPvAI ==
    /\ ~game_over
    /\ game_mode = 0
    /\ player_moved
    /\ LET gs == handle_ai_turn(FALSE)
       IN  /\ SetGameState([gs EXCEPT !.player_moved = FALSE])
           /\ scores' = ScoreUpdate(gs)
    /\ UNCHANGED <<game_mode, search>>

\* Variant: the spectator loop runs the even turns only (its else branch,
\* the turn of the Opponent side, is missing).
AgentTurnDue_EvenTurnsOnly == ~game_over /\ game_mode = 1 /\ turn_counter % 2 = 0

\* When a frame of the main loop runs an agent turn in AI vs AI mode: the
\* game is not over and the mode is the spectator mode.
AgentTurnDue == ~game_over /\ game_mode = 1

\* Variant: the parity test is the other way round.
PlayerSideTurn_OddTurns == turn_counter % 2 = 1

\* The parity test of the spectator loop: AI 1, the Player side, acts when
\* the turn counter is even.
PlayerSideTurn == turn_counter % 2 = 0

\* AI vs AI: one agent turn per frame, the side chosen by the parity of
\* the turn counter.
AgentTurnAIvAI ==
    /\ AgentTurnDue
    /\ LET gs == handle_ai_turn(PlayerSideTurn)
       IN  /\ SetGameState(gs)
           /\ scores' = ScoreUpdate(gs)
    /\ UNCHANGED <<game_mode, search>>

\* ------------------------------------------------------- the human side
Keys == {"w", "s", "a", "d"}

\* The cell a key press aims at.
MoveTarget(key) ==
    CASE key = "w" -> <<player_pos[1] - 1, player_pos[2]>>
      [] key = "s" -> <<player_pos[1] + 1, player_pos[2]>>
      [] key = "a" -> <<player_pos[1], player_pos[2] - 1>>
      [] key = "d" -> <<player_pos[1], player_pos[2] + 1>>

\* Variant: the W and S branches do not test the row.
MoveOK_NoRowTest(key) ==
    LET col == player_pos[2]
    IN  CASE key = "w" -> MoveTarget(key) \notin walls
          [] key = "s" -> MoveTarget(key) \notin walls
          [] key = "a" -> col > 0 /\ MoveTarget(key) \notin walls
          [] key = "d" -> col < BOARD_COLS - 1 /\ MoveTarget(key) \notin walls

\* The test each key branch of the KEYDOWN handler makes before it moves.
MoveOK(key) ==
    LET row == player_pos[1]
        col == player_pos[2]
    IN  CASE key = "w" -> \/ MoveTarget(key) = player_goal
                          \/ row > 1 /\ MoveTarget(key) \notin walls
          [] key = "s" -> \/ MoveTarget(key) = player_goal
                          \/ row < TOTAL_ROWS - 2 /\ MoveTarget(key) \notin walls
          [] key = "a" -> col > 0 /\ MoveTarget(key) \notin walls
          [] key = "d" -> col < BOARD_COLS - 1 /\ MoveTarget(key) \notin walls

\* Variant: the handler does not look at game_over.
MoveHandled_IgnoresGameOver == game_mode = 0 /\ ~player_moved

\* Variant: the handler does not look at player_moved.
MoveHandled_IgnoresPlayerMoved == ~game_over /\ game_mode = 0

\* When the KEYDOWN handler listens to the keys at all.
MoveHandled == ~game_over /\ game_mode = 0 /\ ~player_moved

\* A W/A/S/D key press in Player vs AI mode.
HumanMove(key) ==
    /\ MoveHandled
    /\ IF MoveOK(key)
       THEN /\ player_pos' = MoveTarget(key)
            /\ player_moved' = TRUE
       ELSE UNCHANGED <<player_pos, player_moved>>
    /\ UNCHANGED <<game_mode, ai_pos, walls, player_walls_used, ai_walls_used,
                   turn_counter, game_over, result_message, scores, search>>

\* The cells a click is tried on: the interior cells, both goals and one
\* cell of a goal row that is no goal.  No search and no move test reads a
\* goal-row cell other than a goal, so the corner stands for all of them.
ClickCells ==
    {c \in Cells : 1 <= c[1] /\ c[1] <= TOTAL_ROWS - 2} \cup {player_goal, ai_goal, <<0, 0>>}

\* The cells a click may never wall: both positions and both goals.
ClickBlocked(clicked_cell) ==
    clicked_cell \in {player_pos, ai_pos, player_goal, ai_goal}

\* Variant: the Player's budget test is off by one.
PlayerOutOfWalls_OffByOne == player_walls_used > MAX_WALLS_PER_PLAYER

\* The Player's budget test of the click handler: no walls are left.
PlayerOutOfWalls == player_walls_used >= MAX_WALLS_PER_PLAYER

\* Does a click on clicked_cell commit a wall?
HumanCommitsWall(clicked_cell) ==
    /\ ~ClickBlocked(clicked_cell)
    /\ clicked_cell \notin walls
    /\ ~PlayerOutOfWalls
    /\ BothHavePath(player_pos, ai_pos, walls \cup {clicked_cell})

\* When the main loop looks at a click as a wall placement.
WallHandled == ~game_over /\ game_mode = 0 /\ ~player_moved

\* A left click on a cell of the board in Player vs AI mode.
HumanWall(clicked_cell) ==
    /\ WallHandled
    /\ IF HumanCommitsWall(clicked_cell)
       THEN /\ walls' = walls \cup {clicked_cell}
            /\ player_walls_used' = player_walls_used + 1
       ELSE UNCHANGED <<walls, player_walls_used>>
    /\ UNCHANGED <<game_mode, player_pos, ai_pos, ai_walls_used, turn_counter,
                   game_over, result_message, player_moved, scores, search>>

\* ------------------------------------------------ the game-over screen
\* Variant: "Play Again" keeps the wall counters of the finished game.
Replay_KeepsCounters ==
    /\ game_over
    /\ scores.games_played < MaxGames
    /\ SetGameState([reset_game EXCEPT !.player_walls_used = player_walls_used,
                                       !.ai_walls_used = ai_walls_used])
    /\ UNCHANGED <<game_mode, scores, search>>

\* "Play Again": a fresh game in the same mode.
Replay ==
    /\ game_over
    /\ scores.games_played < MaxGames
    /\ SetGameState(reset_game)
    /\ UNCHANGED <<game_mode, scores, search>>

\* "Switch to ...": the other mode and a fresh game.
ModeSwitch ==
    /\ game_over
    /\ scores.games_played < MaxGames
    /\ game_mode' = 1 - game_mode
    /\ SetGameState(reset_game)
    /\ UNCHANGED <<scores, search>>

\* "Quit to Home": the start screen picks the mode; scores start over.
QuitToHome(mode) ==
    /\ game_over
    /\ game_mode' = mode
    /\ SetGameState(reset_game)
    /\ scores' = NoScores
    /\ UNCHANGED search

Next ==
    \/ \E key \in Keys : HumanMove(key)
    \/ \E clicked_cell \in ClickCells : HumanWall(clicked_cell)
    \/ AgentTurnPvAI
    \/ AgentTurnAIvAI
    \/ Replay
    \/ ModeSwitch
    \/ \E mode \in {0, 1} : QuitToHome(mode)

Spec == Init /\ [][Next]_vars

\* The main loop of AI vs AI mode runs one agent turn in every frame, so
\* an agent turn that is due is taken: weak fairness of AgentTurnAIvAI,
\* WF_vars(AgentTurnAIvAI), with its enabling condition written out (an
\* agent turn always changes the turn counter, so the step is enabled
\* exactly when AgentTurnDue holds).
AgentTurnFair == []<>(~AgentTurnDue) \/ []<><<AgentTurnAIvAI>>_vars

SpecFair == Spec /\ AgentTurnFair

\* ------------------------------------------------- a_star on its own
\* The wall sets a_star is tried on: up to MaxSearchWalls cells.
MaxSearchWalls == 3

RECURSIVE WallSets(_)
WallSets(k) ==
    IF k = 0 THEN {{}}
    ELSE LET prev == WallSets(k - 1)
         IN  prev \cup {w \cup {c} : w \in prev, c \in Cells}

\* The cells a side can stand on when a_star is called for its goal.
StartCells(goal_pos) == {c \in Cells : Interior(c)} \cup {goal_pos}

InitAStar ==
    /\ game_mode = 0
    /\ player_pos = reset_game.player_pos
    /\ ai_pos = reset_game.ai_pos
    /\ walls = reset_game.walls
    /\ player_walls_used = reset_game.player_walls_used
    /\ ai_walls_used = reset_game.ai_walls_used
    /\ turn_counter = reset_game.turn_counter
    /\ game_over = reset_game.game_over
    /\ result_message = reset_game.result_message
    /\ player_moved = reset_game.player_moved
    /\ scores = NoScores
    /\ \E goal_pos \in {player_goal, ai_goal} :
       \E start \in StartCells(goal_pos) :
       \E w \in WallSets(MaxSearchWalls) :
          search = [start |-> start, goal_pos |-> goal_pos, walls |-> w,
                    path |-> <<>>, done |-> FALSE]

\* The call a_star(Node(*start), goal_pos, walls) runs to its return.
RunSearch ==
    /\ ~search.done
    /\ search' = [search EXCEPT !.path = a_star(search.start, search.goal_pos, search.walls),
                                !.done = TRUE]
    /\ UNCHANGED <<game_mode, player_pos, ai_pos, walls, player_walls_used,
                   ai_walls_used, turn_counter, game_over, result_message,
                   player_moved, scores>>

NextAStar == RunSearch

SpecAStar == InitAStar /\ [][NextAStar]_vars

\* ================================================================ claims
\* A wall placement was accepted in this step: a counter went up by one.
WallAccepted ==
    \/ player_walls_used' = player_walls_used + 1
    \/ ai_walls_used' = ai_walls_used + 1

\* The agent whose turn this step is (Player side or Opponent side).
PlayerAgentStep == turn_counter % 2 = 0 /\ AgentTurnAIvAI
OpponentAgentStep == AgentTurnPvAI \/ (turn_counter % 2 = 1 /\ AgentTurnAIvAI)
HumanWallStep == \E clicked_cell \in ClickCells : HumanWall(clicked_cell)

\* C1: no-trap invariant.  Whenever a wall placement is accepted (a human
\* click or the wall step of an agent turn), a_star from the Player's
\* position to the Player's goal and from the Opponent's position to the
\* Opponent's goal are both non-empty under the resulting wall set; the
\* positions are those at the wall step, which comes before the agent moves.
C1_NoTrapOnAcceptedWall ==
    [][WallAccepted =>
          /\ a_star(player_pos, player_goal, walls') # <<>>
          /\ a_star(ai_pos, ai_goal, walls') # <<>>]_vars

\* Both sides have had a wall accepted and some free cell would trap a side.
C1_Witness ==
    /\ ~game_over
    /\ player_walls_used > 0
    /\ ai_walls_used > 0
    /\ \E c \in Cells \ walls :
          /\ c \notin {player_pos, ai_pos, player_goal, ai_goal}
          /\ \/ a_star(player_pos, player_goal, walls \cup {c}) = <<>>
             \/ a_star(ai_pos, ai_goal, walls \cup {c}) = <<>>

\* C2: both wall counters stay within MAX_WALLS_PER_PLAYER, and a wall
\* placement attempted by a side whose counter is at the maximum (a human
\* click, an agent turn) changes neither the wall set nor a counter.
C2_WallBudget ==
    /\ [](player_walls_used <= MAX_WALLS_PER_PLAYER /\ ai_walls_used <= MAX_WALLS_PER_PLAYER)
    /\ [][/\ (player_walls_used = MAX_WALLS_PER_PLAYER /\ HumanWallStep)
              => UNCHANGED <<walls, player_walls_used, ai_walls_used>>
          /\ (player_walls_used = MAX_WALLS_PER_PLAYER /\ PlayerAgentStep)
              => UNCHANGED <<walls, player_walls_used, ai_walls_used>>
          /\ (ai_walls_used = MAX_WALLS_PER_PLAYER /\ OpponentAgentStep)
              => UNCHANGED <<walls, player_walls_used, ai_walls_used>>]_vars

\* Both budgets are spent and the game goes on, so further attempts come.
C2_Witness ==
    /\ ~game_over
    /\ player_walls_used = MAX_WALLS_PER_PLAYER
    /\ ai_walls_used = MAX_WALLS_PER_PLAYER

\* The grid of the claim's breadth-first search: unit cardinal steps into
\* interior cells that are no wall, and into the goal cell.
GridNeighbours(c, goal, W) ==
    {n \in {<<c[1] + 1, c[2]>>, <<c[1] - 1, c[2]>>, <<c[1], c[2] + 1>>, <<c[1], c[2] - 1>>} :
        \/ n = goal
        \/ /\ n[1] \in 1 .. TOTAL_ROWS - 2
           /\ n[2] \in 0 .. BOARD_COLS - 1
           /\ n \notin W}

RECURSIVE BFSLevel(_, _, _, _, _)
BFSLevel(frontier, seen, goal, W, d) ==
    IF goal \in frontier THEN d
    ELSE IF frontier = {} THEN -1
    ELSE LET next == UNION {GridNeighbours(c, goal, W) : c \in frontier} \ seen
         IN  BFSLevel(next, seen \cup next, goal, W, d + 1)

\* The breadth-first distance from start to goal under W; -1 if there is none.
GridDistance(start, goal, W) == BFSLevel({start}, {start}, goal, W, 0)

\* C3: optimality of a_star.  For every wall set and every start cell other
\* than the goal from which the goal can be reached, the path a_star returns
\* has as many cells as the breadth-first distance from start to goal.
C3_AStarOptimal ==
    (/\ search.done
     /\ search.start # search.goal_pos
     /\ GridDistance(search.start, search.goal_pos, search.walls) >= 0)
    => Len(search.path) = GridDistance(search.start, search.goal_pos, search.walls)

\* A finished search whose walls force a detour: the shortest path is longer
\* than the Manhattan distance, and a_star returned a path of that length.
C3_Witness ==
    /\ search.done
    /\ search.start # search.goal_pos
    /\ GridDistance(search.start, search.goal_pos, search.walls)
          > heuristic(search.start, search.goal_pos)
    /\ Len(search.path) = GridDistance(search.start, search.goal_pos, search.walls)

\* C4: game over fires at once.  In every state in which a side stands on
\* its own goal, game_over is already true, so that no operation runs
\* between the move onto the goal and the end of the game.
C4_GameOverAtOnce ==
    (player_pos = player_goal \/ ai_pos = ai_goal) => game_over

\* C5: game over is terminal.  From a state with game_over set, the only
\* steps that change anything are the resets of the game-over screen
\* (replay, mode switch, quit to home); no move, wall placement or agent
\* turn changes positions, walls, counters, turn counter or message.
C5_GameOverTerminal ==
    [][game_over =>
          \/ Replay
          \/ ModeSwitch
          \/ \E mode \in {0, 1} : QuitToHome(mode)]_vars

\* A finished Player-vs-AI game the Opponent won: the Player still stands
\* on an interior cell and the keys are still being pressed.
C5_Witness ==
    /\ game_over
    /\ game_mode = 0
    /\ ai_pos = ai_goal
    /\ player_pos # player_goal
    /\ walls # {}

\* C6: neither goal cell is ever a member of the wall set.
C6_GoalsNeverWalled ==
    player_goal \notin walls /\ ai_goal \notin walls

\* C7: a wall is never placed on an occupied cell.  A cell added to the wall
\* set differs from both sides' positions at the moment it is added, and in
\* every state neither side's position is a member of the wall set.
C7_NoWallOnOccupiedCell ==
    /\ [](player_pos \notin walls /\ ai_pos \notin walls)
    /\ [][\A c \in walls' \ walls : c # player_pos /\ c # ai_pos]_vars

\* C8: a wall placement aimed at a cell that is already a wall is rejected,
\* for the human and for the agent alike: the wall set and both counters
\* stay as they are.
C8_AlreadyWalledRejected ==
    [][/\ \A c \in walls :
             HumanWall(c) => UNCHANGED <<walls, player_walls_used, ai_walls_used>>
       /\ \A is_player_ai \in BOOLEAN :
             (/\ ~game_over
              /\ AIHasBudget(IF is_player_ai THEN player_walls_used ELSE ai_walls_used)
              /\ OpponentPath(is_player_ai) # <<>>
              /\ BlockPos(OpponentPath(is_player_ai)) \in walls
              /\ IF is_player_ai THEN PlayerAgentStep ELSE OpponentAgentStep)
             => UNCHANGED <<walls, player_walls_used, ai_walls_used>>]_vars

\* C9: a reset from game over gives the fresh game, whatever came before:
\* both sides on their spawn cells, no walls, counters and turn counter 0,
\* player_moved false, no message, game_over false.
C9_ResetIsFresh ==
    [][(game_over /\ (~game_over' \/ game_state' # game_state)) =>
          /\ player_pos' = <<1, BOARD_COLS \div 2>>
          /\ ai_pos' = <<TOTAL_ROWS - 2, BOARD_COLS \div 2>>
          /\ walls' = {}
          /\ player_walls_used' = 0
          /\ ai_walls_used' = 0
          /\ turn_counter' = 0
          /\ player_moved' = FALSE
          /\ result_message' = ""
          /\ game_over' = FALSE]_vars

\* The fresh state of a later game: a game has been scored, so a reset on
\* the game-over screen led here.
C9_Witness ==
    /\ scores.games_played > 0
    /\ ~game_over
    /\ turn_counter = 0
    /\ walls = {}
    /\ player_pos = <<1, BOARD_COLS \div 2>>
    /\ ai_pos = <<TOTAL_ROWS - 2, BOARD_COLS \div 2>>

\* The target of a key press is one the claim calls rejected: a column off
\* the board, a row outside the interior without being the Player's goal,
\* or a wall.
TargetRejected(key) ==
    LET t == MoveTarget(key)
    IN  \/ t[2] < 0 \/ t[2] > BOARD_COLS - 1
        \/ (t[1] < 1 \/ t[1] > TOTAL_ROWS - 2) /\ t # player_goal
        \/ t \in walls

\* C10: a rejected human move is a no-op.  A key press whose target is off
\* the board, outside the interior rows without being the Player's goal, or
\* a wall leaves the whole game state as it is and triggers no agent turn.
C10_RejectedMoveNoOp ==
    [][\A key \in Keys :
          (HumanMove(key) /\ TargetRejected(key)) => UNCHANGED vars]_vars

\* C11: automated play terminates.  In AI vs AI mode, with the agent turns
\* run frame after frame, every game reaches game_over: there is no run in
\* which neither side ever reaches its goal.
C11_AutomatedPlayTerminates ==
    (game_mode = 1 /\ ~game_over) ~> game_over

\* An AI-vs-AI game that the alternating agent turns have brought to its
\* end, walls placed on the way.
C11_Witness ==
    /\ game_mode = 1
    /\ game_over
    /\ turn_counter >= 2
    /\ walls # {}
    /\ (player_pos = player_goal \/ ai_pos = ai_goal)

\* C12: strict alternation in AI vs AI mode.  Every agent turn raises the
\* turn counter by exactly 1; on an even counter the Player side acts (it
\* moves, the Opponent's position and wall counter stay), on an odd counter
\* the Opponent side acts, so the first turn of a game is the Player
\* side's and no side acts twice in a row.
C12_StrictAlternation ==
    [][AgentTurnAIvAI =>
          /\ turn_counter' = turn_counter + 1
          /\ IF turn_counter % 2 = 0
             THEN /\ player_pos' # player_pos
                  /\ ai_pos' = ai_pos
                  /\ ai_walls_used' = ai_walls_used
             ELSE /\ ai_pos' # ai_pos
                  /\ player_pos' = player_pos
                  /\ player_walls_used' = player_walls_used]_vars

\* An AI-vs-AI game after at least two turns of each side.
C12_Witness ==
    /\ game_mode = 1
    /\ turn_counter >= 4
    /\ player_pos # reset_game.player_pos
    /\ ai_pos # reset_game.ai_pos

\* Two cells one cardinal step apart.
CardinalNeighbours(a, b) == Abs(a[1] - b[1]) + Abs(a[2] - b[2]) = 1

InGoalRow(c) == c[1] = 0 \/ c[1] = TOTAL_ROWS - 1

\* C14: every wall is an interior cell.  Each member of the wall set has a
\* row in 1 .. TOTAL_ROWS - 2 and a column in 0 .. BOARD_COLS - 1, and a
\* wall placement aimed at a cell of row 0 or row TOTAL_ROWS - 1, by a
\* click or by an agent's wall step, changes neither the wall set nor a
\* wall counter.
C14_WallsAreInterior ==
    /\ [](\A c \in walls : /\ 1 <= c[1] /\ c[1] <= TOTAL_ROWS - 2
                           /\ 0 <= c[2] /\ c[2] <= BOARD_COLS - 1)
    /\ [][/\ \A c \in ClickCells :
                (InGoalRow(c) /\ HumanWall(c))
                => UNCHANGED <<walls, player_walls_used, ai_walls_used>>
          /\ \A is_player_ai \in BOOLEAN :
                (/\ ~game_over
                 /\ OpponentPath(is_player_ai) # <<>>
                 /\ InGoalRow(BlockPos(OpponentPath(is_player_ai)))
                 /\ IF is_player_ai THEN PlayerAgentStep ELSE OpponentAgentStep)
                => UNCHANGED <<walls, player_walls_used, ai_walls_used>>]_vars

\* C15: win attribution.  Whenever the game is over the result message
\* names a side that stands on its own goal, the Player side whenever the
\* Player stands on the Player's goal (even if the Opponent stands on its
\* goal too); and the step that ends a game adds one win to the counter of
\* that same side and one game to games_played.
C15_WinAttribution ==
    /\ [](game_over =>
             IF player_pos = player_goal
             THEN result_message \in {MsgYou, MsgPlayerAI}
             ELSE ai_pos = ai_goal /\ result_message = MsgAI)
    /\ [][(~game_over /\ game_over') =>
             IF player_pos' = player_goal
             THEN scores' = [scores EXCEPT !.player_wins = @ + 1, !.games_played = @ + 1]
             ELSE scores' = [scores EXCEPT !.ai_wins = @ + 1, !.games_played = @ + 1]]_vars

\* A game that ended with both sides on their goals: the Player moved onto
\* its goal and the Opponent's agent turn of the same frame reached its
\* own; the win went to the Player.
C15_Witness ==
    /\ game_over
    /\ player_pos = player_goal
    /\ ai_pos = ai_goal
    /\ result_message = MsgYou
    /\ scores.player_wins >= 1

\* The acting side stood on pos, not on its goal goal_pos, and the turn took
\* it to new_pos under the walls new_walls the turn left: one cardinal step
\* onto a cell that is no wall and is interior or its goal, one step closer
\* to the goal.
Advanced(pos, new_pos, goal_pos, new_walls) ==
    /\ CardinalNeighbours(pos, new_pos)
    /\ new_pos \notin new_walls
    /\ Interior(new_pos) \/ new_pos = goal_pos
    /\ GridDistance(new_pos, goal_pos, new_walls)
          = GridDistance(pos, goal_pos, new_walls) - 1

WallStepAsClaimed(used, new_used, other_used, new_other_used, opponent_pos, opponent_goal) ==
    LET opponent_path == a_star(opponent_pos, opponent_goal, walls)
        commits ==
            /\ used < MAX_WALLS_PER_PLAYER
            /\ opponent_path # <<>>
            /\ a_star(player_pos, player_goal, walls \cup {opponent_path[1]}) # <<>>
            /\ a_star(ai_pos, ai_goal, walls \cup {opponent_path[1]}) # <<>>
    IN  /\ IF commits
           THEN walls' = walls \cup {opponent_path[1]} /\ new_used = used + 1
           ELSE walls' = walls /\ new_used = used
        /\ new_other_used = other_used
        /\ Cardinality(walls' \ walls) <= 1

\* C17: the agent's wall step.  An agent turn commits a wall if and only if
\* the acting side's counter is below MAX_WALLS_PER_PLAYER, the opponent's
\* a_star path under the walls before the turn is not empty, and both sides
\* keep a path with the candidate added; the wall committed is the first
\* cell of the opponent's path, at most one cell is added in a turn, and
\* only the acting side's counter goes up, by exactly 1.
C17_AgentWallStep ==
    [][/\ PlayerAgentStep =>
             WallStepAsClaimed(player_walls_used, player_walls_used',
                               ai_walls_used, ai_walls_used', ai_pos, ai_goal)
       /\ OpponentAgentStep =>
             WallStepAsClaimed(ai_walls_used, ai_walls_used',
                               player_walls_used, player_walls_used',
                               player_pos, player_goal)]_vars

\* A Player-vs-AI game in which the agent has committed two walls and has
\* also had a turn in which it committed none; the Player placed no wall.
C17_Witness ==
    /\ game_mode = 0
    /\ player_walls_used = 0
    /\ ai_walls_used = 2
    /\ Cardinality(walls) = 2
    /\ turn_counter >= 3

\* C18: in Player vs AI mode the agent acts exactly once after each
\* successful human move and at no other time.  A successful move marks
\* player_moved; while the mark is set the only step is the agent turn (no
\* second move, no wall placement), which clears it and is one run of
\* handle_ai_turn; while it is not set (a wall placement, accepted or not,
\* or a rejected move) no agent turn runs.
C18_OneAgentTurnPerMove ==
    [][game_mode = 0 =>
          /\ player_moved => AgentTurnPvAI
          /\ AgentTurnPvAI =>
                /\ player_moved
                /\ ~player_moved'
                /\ turn_counter' = turn_counter + 1
          /\ (~player_moved /\ ~game_over) =>
                /\ turn_counter' = turn_counter
                /\ ai_pos' = ai_pos
                /\ ai_walls_used' = ai_walls_used
                /\ player_moved' = (player_pos' # player_pos)]_vars

\* A successful human move waits for its agent turn, after earlier rounds
\* of move and agent turn and a wall placed by the Player.
C18_Witness ==
    /\ game_mode = 0
    /\ player_moved
    /\ turn_counter >= 2
    /\ player_walls_used >= 1

\* C19: each side stands on an interior cell (row in 1 .. TOTAL_ROWS - 2,
\* column in 0 .. BOARD_COLS - 1) or on its own goal; never on another cell
\* of a goal row, never on the other side's goal.
C19_PositionsOnBoard ==
    /\ \/ /\ 1 <= player_pos[1] /\ player_pos[1] <= TOTAL_ROWS - 2
          /\ 0 <= player_pos[2] /\ player_pos[2] <= BOARD_COLS - 1
       \/ player_pos = player_goal
    /\ \/ /\ 1 <= ai_pos[1] /\ ai_pos[1] <= TOTAL_ROWS - 2
          /\ 0 <= ai_pos[2] /\ ai_pos[2] <= BOARD_COLS - 1
       \/ ai_pos = ai_goal

\* The Player has walked to the last interior row, off the goal's column,
\* right next to a cell of its goal row that is no goal; the Opponent
\* stands in the first interior row, off its goal's column.
C19_Witness ==
    /\ game_mode = 0
    /\ ~game_over
    /\ player_pos[1] = TOTAL_ROWS - 2
    /\ player_pos[2] # player_goal[2]
    /\ ai_pos[1] = 1
    /\ ai_pos[2] # ai_goal[2]

\* C20: wall accounting.  The wall set has as many cells as the two wall
\* counters add up to: every step that raises a counter adds exactly one
\* new cell, and no step of a running game takes a cell away.
C20_WallAccounting ==
    /\ [](Cardinality(walls) = player_walls_used + ai_walls_used)
    /\ [][/\ WallAccepted => Cardinality(walls' \ walls) = 1
          /\ ~game_over => walls \subseteq walls']_vars

\* C21: the frame of an agent turn and of a human wall placement.  An
\* agent turn of one side leaves the other side's position and wall counter
\* as they are and takes no cell out of the wall set (the goals are fixed
\* cells).  A wall placement by the human (in Player vs AI mode the only
\* step of a running game that changes player_walls_used) changes the wall
\* set and player_walls_used only: both positions, ai_walls_used, the turn
\* counter, player_moved and game_over stay.
C21_Frame ==
    [][/\ PlayerAgentStep =>
             /\ ai_pos' = ai_pos
             /\ ai_walls_used' = ai_walls_used
             /\ walls \subseteq walls'
       /\ OpponentAgentStep =>
             /\ player_pos' = player_pos
             /\ player_walls_used' = player_walls_used
             /\ walls \subseteq walls'
       /\ (game_mode = 0 /\ ~game_over /\ player_walls_used' # player_walls_used) =>
             /\ walls \subseteq walls'
             /\ UNCHANGED <<player_pos, ai_pos, ai_walls_used, turn_counter,
                            player_moved, game_over>>]_vars

\* A Player-vs-AI game in which the human has placed a wall and the agent
\* has had turns and placed walls of its own.
C21_Witness ==
    /\ game_mode = 0
    /\ ~game_over
    /\ player_walls_used >= 1
    /\ ai_walls_used >= 2
    /\ turn_counter >= 2
    /\ player_pos # reset_game.player_pos

====
